---- MODULE Spec2Model ----
(***************************************************************************)
(* Model of the 3dgs-analysis-pipeline utilities.                          *)
(*                                                                         *)
(*   src/ply_wrapper.py  PlyWrapper: decodes the first element group of a  *)
(*                       PLY structure into numpy arrays and answers       *)
(*                       queries on them.            (specification Spec)  *)
(*   src/exporter.py     NerfSyntheticDatasetExporter: samples camera      *)
(*                       positions and renders the train/val/test sets.    *)
(*                                            (specification SpecExporter) *)
(*                                                                         *)
(* Property names are sequences of one-character strings, so that          *)
(* str.startswith, str.split('_')[-1] and int() are computed as Python     *)
(* computes them.  A numpy array is a shape and a row-major flat buffer.   *)
(***************************************************************************)
EXTENDS Integers, Sequences, FiniteSets, TLC

VARIABLES
    self,       \* __dict__ of the PlyWrapper instance being / last constructed
    ref,        \* TRUE iff the constructor returned: the caller holds the object
    op,         \* name of the last operation the caller ran
    arg,        \* the argument the caller passed to it
    exc,        \* exception class that operation raised, "None" if it returned
    ret,        \* value that operation returned
    exporter,   \* fields of the NerfSyntheticDatasetExporter instance
    renders,    \* images render_all left in the export directory: filepath, frame_number,
                \* camera location
    test_png,   \* the image test_render left in the export directory, <<>> if none
    manifests,  \* the frames of the transforms_<set>.json files in the export directory
    xop         \* last exporter operation

plyVars == <<self, ref, op, arg, exc, ret>>
expVars == <<exporter, renders, test_png, manifests, xop>>
vars == <<self, ref, op, arg, exc, ret, exporter, renders, test_png, manifests, xop>>

\* ------------------------------------------------------------------ bounds
MaxPoints == 2      \* rows of an element group: 1..MaxPoints
MaxExtra == 2       \* properties declared besides the required base ones

\* ------------------------------------------------------------ Python basics
Range(s) == {s[i] : i \in 1..Len(s)}

Max(S) == CHOOSE m \in S : \A k \in S : k <= m

NoDict == [k \in {} |-> 0]

Put(d, k, v) == [j \in (DOMAIN d) \cup {k} |-> IF j = k THEN v ELSE d[j]]

\* str.startswith(prefix)
startswith(s, p) == Len(s) >= Len(p) /\ SubSeq(s, 1, Len(p)) = p

\* x.split('_')[-1]: the text after the last underscore, all of x if it has none
split_last(s) ==
    LET us == {i \in 1..Len(s) : s[i] = "_"}
        from == IF us = {} THEN 1 ELSE Max(us) + 1
    IN SubSeq(s, from, Len(s))

Digits == <<"0", "1", "2", "3", "4", "5", "6", "7", "8", "9">>

DigitVal(c) == (CHOOSE i \in 1..Len(Digits) : Digits[i] = c) - 1

AllDigits(s) == Len(s) > 0 /\ \A i \in 1..Len(s) : s[i] \in Range(Digits)

Unsigned(s) == IF Len(s) > 0 /\ s[1] \in {"+", "-"} THEN Tail(s) ELSE s

\* int(s) raises ValueError unless s is an optionally signed run of digits
int_ok(s) == AllDigits(Unsigned(s))

RECURSIVE DecVal(_)
DecVal(s) == IF s = <<>> THEN 0
             ELSE 10 * DecVal(SubSeq(s, 1, Len(s) - 1)) + DigitVal(s[Len(s)])

int(s) == IF Len(s) > 0 /\ s[1] = "-" THEN 0 - DecVal(Unsigned(s)) ELSE DecVal(Unsigned(s))

\* the sort key of capture_data: lambda x: int(x.split('_')[-1])
suffix_key(name) == int(split_last(name))

RECURSIVE InsertByKey(_, _)
InsertByKey(sorted, name) ==
    IF sorted = <<>> THEN <<name>>
    ELSE IF suffix_key(sorted[Len(sorted)]) <= suffix_key(name)
         THEN Append(sorted, name)
         ELSE Append(InsertByKey(SubSeq(sorted, 1, Len(sorted) - 1), name), sorted[Len(sorted)])

RECURSIVE StableSort(_)
StableSort(names) ==
    IF names = <<>> THEN <<>>
    ELSE InsertByKey(StableSort(SubSeq(names, 1, Len(names) - 1)), names[Len(names)])

\* characters in ASCII order, as far as property names use them
Alphabet == Digits \o <<"_", "a", "c", "d", "e", "f", "i", "l", "n", "o", "p", "r", "s", "t",
                        "x", "y", "z">>

Ord(c) == CHOOSE i \in 1..Len(Alphabet) : Alphabet[i] = c

\* s <= t as Python compares str
RECURSIVE StrLeq(_, _)
StrLeq(s, t) ==
    IF s = <<>> THEN TRUE
    ELSE IF t = <<>> THEN FALSE
    ELSE IF s[1] # t[1] THEN Ord(s[1]) < Ord(t[1])
    ELSE StrLeq(Tail(s), Tail(t))

RECURSIVE InsertByStr(_, _)
InsertByStr(sorted, name) ==
    IF sorted = <<>> THEN <<name>>
    ELSE IF StrLeq(sorted[Len(sorted)], name)
         THEN Append(sorted, name)
         ELSE Append(InsertByStr(SubSeq(sorted, 1, Len(sorted) - 1), name), sorted[Len(sorted)])

\* faulty variant: sorted(names), the names compared as text without the integer key
RECURSIVE sorted_as_text(_)
sorted_as_text(names) ==
    IF names = <<>> THEN <<>>
    ELSE InsertByStr(sorted_as_text(SubSeq(names, 1, Len(names) - 1)), names[Len(names)])

\* sorted(names, key=lambda x: int(x.split('_')[-1])): stable, ascending
sorted_by_suffix(names) == StableSort(names)

\* [p.name for p in properties if p.name.startswith(prefix)]
names_with_prefix(props, prefix) == SelectSeq(props, LAMBDA n : startswith(n, prefix))

\* -------------------------------------------------------------- numpy arrays
RECURSIVE Prod(_)
Prod(shape) == IF shape = <<>> THEN 1 ELSE Head(shape) * Prod(Tail(shape))

\* np.zeros(shape)
zeros(shape) == [shape |-> shape, flat |-> [i \in 1..Prod(shape) |-> 0]]

\* np.stack((a, b, c), axis=1) of three one-dimensional arrays of equal length
stack3(a, b, c) ==
    LET n == Len(a)
    IN [shape |-> <<n, 3>>,
        flat |-> [k \in 1..(3 * n) |->
                    LET r == (k - 1) \div 3 + 1
                        j == (k - 1) % 3
                    IN IF j = 0 THEN a[r] ELSE IF j = 1 THEN b[r] ELSE c[r]]]

\* a[..., np.newaxis] of a one-dimensional array
newaxis(col) == [shape |-> <<Len(col), 1>>, flat |-> col]

\* a[:, j] = col on a two-dimensional array (j counted from 0)
set_column(a, j, col) ==
    [a EXCEPT !.flat = [k \in 1..Len(a.flat) |->
        IF (k - 1) % a.shape[2] = j THEN col[(k - 1) \div a.shape[2] + 1] ELSE a.flat[k]]]

\* a[:, j, 0] = col on a three-dimensional array of shape (N, 3, 1)
set_channel(a, j, col) ==
    LET w == a.shape[2] * a.shape[3]
    IN [a EXCEPT !.flat = [k \in 1..Len(a.flat) |->
        IF (k - 1) % w = j * a.shape[3] THEN col[(k - 1) \div w + 1] ELSE a.flat[k]]]

\* ndarray.squeeze(): every axis of length one is removed
squeeze(a) == [a EXCEPT !.shape = SelectSeq(a.shape, LAMBDA d : d # 1)]

\* rows of a two-dimensional array; the scalars of a one-dimensional one
Row(a, r) == IF Len(a.shape) = 2
             THEN [j \in 1..a.shape[2] |-> a.flat[(r - 1) * a.shape[2] + j]]
             ELSE a.flat[r]

\* len(a): the leading dimension
len(a) == a.shape[1]

\* column j (from 0) of a two-dimensional array
Column(a, j) == [r \in 1..a.shape[1] |-> a.flat[(r - 1) * a.shape[2] + j + 1]]

\* ------------------------------------------------------------ property names
n_x == <<"x">>
n_y == <<"y">>
n_z == <<"z">>
n_opacity == <<"o", "p", "a", "c", "i", "t", "y">>
n_f_dc_0 == <<"f", "_", "d", "c", "_", "0">>
n_f_dc_1 == <<"f", "_", "d", "c", "_", "1">>
n_f_dc_2 == <<"f", "_", "d", "c", "_", "2">>
n_f_rest_9 == <<"f", "_", "r", "e", "s", "t", "_", "9">>
n_f_rest_10 == <<"f", "_", "r", "e", "s", "t", "_", "1", "0">>
n_scale_0 == <<"s", "c", "a", "l", "e", "_", "0">>
n_scale_1 == <<"s", "c", "a", "l", "e", "_", "1">>
n_rot_0 == <<"r", "o", "t", "_", "0">>
n_rot_1 == <<"r", "o", "t", "_", "1">>
n_nx == <<"n", "x">>
n_rotation == <<"r", "o", "t", "a", "t", "i", "o", "n">>
n_rotation_0 == <<"r", "o", "t", "a", "t", "i", "o", "n", "_", "0">>

p_f_rest == <<"f", "_", "r", "e", "s", "t", "_">>
p_scale == <<"s", "c", "a", "l", "e", "_">>
p_rot == <<"r", "o", "t">>

\* the properties capture_data reads by name, in the order it reads them
BaseNames == <<n_x, n_y, n_z, n_opacity, n_f_dc_0, n_f_dc_1, n_f_dc_2>>

\* properties a source may declare besides the base ones
ExtraNames == <<n_f_rest_9, n_f_rest_10, n_scale_0, n_scale_1, n_rot_0, n_rot_1,
                n_nx, n_rotation, n_rotation_0>>

AllNames == BaseNames \o ExtraNames

Code(name) == CHOOSE i \in 1..Len(AllNames) : AllNames[i] = name

\* --------------------------------------------------------------- PLY sources
\* The first element group of a PlyData: its row count, its properties in
\* declaration order, and one column of `count` scalars per property.
\* Filling "distinct" gives every cell its own value; filling "same" repeats the
\* first row, so that all points coincide.
Cell(filling, name, row) == 10 * Code(name) + (IF filling = "distinct" THEN row ELSE 1)

MkElement(count, props, filling) ==
    [count |-> count,
     properties |-> props,
     data |-> [n \in Range(props) |-> [r \in 1..count |-> Cell(filling, n, r)]]]

RECURSIVE DistinctSeqs(_, _)
DistinctSeqs(S, n) ==
    IF n = 0 THEN {<<>>}
    ELSE LET shorter == DistinctSeqs(S, n - 1)
         IN shorter \cup {Append(q, e) : q \in {t \in shorter : Len(t) = n - 1}, e \in S}

ExtraSeqs == {q \in DistinctSeqs(Range(ExtraNames), MaxExtra) :
                \A i, j \in 1..Len(q) : i # j => q[i] # q[j]}

Shapes == {<<c, f>> \in (1..MaxPoints) \X {"distinct", "same"} : f = "same" => c > 1}

Without(s, e) == SelectSeq(s, LAMBDA n : n # e)

\* sources that declare every base property
FullSources == {MkElement(sh[1], BaseNames \o q, sh[2]) : sh \in Shapes, q \in ExtraSeqs}

\* sources that lack one base property
LackingSources ==
    {MkElement(sh[1], Without(BaseNames, b) \o q, sh[2]) :
        sh \in Shapes, b \in Range(BaseNames), q \in {<<>>, <<n_scale_0, n_rot_0>>}}

Sources == FullSources \cup LackingSources

\* sources stored in files on disk, and the second sources of matching_dimensions
FileSources == {MkElement(sh[1], BaseNames \o q, sh[2]) :
                    sh \in Shapes, q \in {<<n_scale_1, n_scale_0>>}}

OtherSources == FileSources \cup
                {MkElement(sh[1], Without(BaseNames, n_x), sh[2]) : sh \in Shapes}

NoPly == MkElement(0, <<>>, "same")

\* what a caller may pass as `data` / `other`: a PlyData, a path to a file holding
\* one, a path where no file exists, or a value of another type
Arg(kind, ply) == [kind |-> kind, ply |-> ply]

InitArgs == {Arg("PlyData", s) : s \in Sources} \cup {Arg("path", s) : s \in FileSources}
            \cup {Arg("missing_path", NoPly), Arg("other", NoPly)}

OtherArgs == {Arg("PlyData", s) : s \in OtherSources} \cup {Arg("path", s) : s \in FileSources}
             \cup {Arg("missing_path", NoPly), Arg("other", NoPly)}

\* ----------------------------------------------------------- PlyWrapper
\* the outcome of a method: the instance __dict__ after it, the exception it
\* raised ("None" when it returned) and its return value
Outcome(d, e, r) == [self |-> d, exc |-> e, ret |-> r]

NoRet == [kind |-> "None"]

\* faulty variant: elements[0][name] that yields zeros for an undeclared property
element_get_lenient(el, name) ==
    IF name \in Range(el.properties)
    THEN [exc |-> "None", col |-> el.data[name]]
    ELSE [exc |-> "None", col |-> [r \in 1..el.count |-> 0]]

\* self.ply_data.elements[0][name]: the column of the property, ValueError
\* ("no field of name ...") when the element group declares no such property
element_get(el, name) ==
    IF name \in Range(el.properties)
    THEN [exc |-> "None", col |-> el.data[name]]
    ELSE [exc |-> "ValueError", col |-> <<>>]

\* for idx, name in enumerate(names): a[:, idx] = np.asarray(elements[0][name])
RECURSIVE fill_columns(_, _, _, _)
fill_columns(a, el, names, idx) ==
    IF idx >= Len(names) THEN a
    ELSE fill_columns(set_column(a, idx, element_get(el, names[idx + 1]).col), el, names, idx + 1)

\* the names of one variable-length group can be sorted: int() accepts every suffix
sortable(names) == \A i \in 1..Len(names) : int_ok(split_last(names[i]))

\* zeros((N, len(names))) filled column by column from the sorted names
group_array(el, n, names) == fill_columns(zeros(<<n, Len(names)>>), el, sorted_by_suffix(names), 0)

\* the prefix capture_data selects the rotation properties by
rot_prefix == p_rot

\* PlyWrapper.capture_data on the instance d (d.ply_data set)
capture_data(d) ==
    LET el == d.ply_data
        gx == element_get(el, n_x)
        gy == element_get(el, n_y)
        gz == element_get(el, n_z)
        go == element_get(el, n_opacity)
        g0 == element_get(el, n_f_dc_0)
        g1 == element_get(el, n_f_dc_1)
        g2 == element_get(el, n_f_dc_2)
        d1 == Put(d, "xyz", stack3(gx.col, gy.col, gz.col))
        n  == d1.xyz.shape[1]
        d2 == Put(d1, "opacities", newaxis(go.col))
        d3 == Put(d2, "direct_current", zeros(<<n, 3, 1>>))
        d4 == Put(d3, "direct_current", set_channel(d3.direct_current, 0, g0.col))
        d5 == Put(d4, "direct_current", set_channel(d4.direct_current, 1, g1.col))
        d6 == Put(d5, "direct_current", set_channel(d5.direct_current, 2, g2.col))
        d7 == Put(d6, "direct_current", squeeze(d6.direct_current))
        extra_f_names == names_with_prefix(el.properties, p_f_rest)
        d8 == Put(d7, "higher_order_shs", zeros(<<len(d7.xyz), Len(extra_f_names)>>))
        d9 == Put(d8, "higher_order_shs", group_array(el, len(d7.xyz), extra_f_names))
        scale_names == names_with_prefix(el.properties, p_scale)
        rot_names == names_with_prefix(el.properties, rot_prefix)
        d10 == Put(d9, "scaling", group_array(el, n, scale_names))
        d11 == Put(d10, "rotation", group_array(el, n, rot_names))
    IN IF gx.exc # "None" THEN Outcome(d, gx.exc, NoRet)
       ELSE IF gy.exc # "None" THEN Outcome(d, gy.exc, NoRet)
       ELSE IF gz.exc # "None" THEN Outcome(d, gz.exc, NoRet)
       ELSE IF go.exc # "None" THEN Outcome(d1, go.exc, NoRet)
       ELSE IF g0.exc # "None" THEN Outcome(d3, g0.exc, NoRet)
       ELSE IF g1.exc # "None" THEN Outcome(d4, g1.exc, NoRet)
       ELSE IF g2.exc # "None" THEN Outcome(d5, g2.exc, NoRet)
       ELSE IF ~sortable(extra_f_names) THEN Outcome(d7, "ValueError", NoRet)
       ELSE IF ~sortable(scale_names) THEN Outcome(d9, "ValueError", NoRet)
       ELSE IF ~sortable(rot_names) THEN Outcome(d9, "ValueError", NoRet)
       ELSE Outcome(d11, "None", NoRet)

\* the six keys of the mapping get_data returns when no names are given
FieldNames == <<"xyz", "opacities", "direct_current", "higher_order", "scaling", "rotation">>

\* the methods the class body defines
OwnMethods == {"__init__", "matching_dimensions", "get_dims", "capture_data", "get_data",
               "get_sh_coeffs_standardized_format"}

\* the methods PlyWrapper inherits from object
ObjectMethods == {"__delattr__", "__dir__", "__eq__", "__format__", "__ge__",
                  "__getattribute__", "__getstate__", "__gt__", "__hash__",
                  "__init_subclass__", "__le__", "__lt__", "__ne__", "__new__", "__reduce__",
                  "__reduce_ex__", "__repr__", "__setattr__", "__sizeof__", "__str__",
                  "__subclasshook__"}

\* class-level attributes that are data, not methods
DataAttrs == {"__class__", "__dict__", "__doc__", "__module__", "__weakref__"}

\* attributes found on the class rather than in the instance __dict__
ClassAttrs == OwnMethods \cup ObjectMethods \cup DataAttrs

\* hasattr(self, attr)
hasattr(d, attr) == attr \in (DOMAIN d) \cup ClassAttrs

\* getattr(self, attr), for an attribute hasattr finds
getattr(d, attr) ==
    IF attr \in DOMAIN d THEN d[attr]
    ELSE IF attr \in {"__doc__", "__weakref__"} THEN [kind |-> "NoneType"]
    ELSE IF attr = "__module__" THEN [kind |-> "str", value |-> "ply_wrapper"]
    ELSE IF attr = "__dict__" THEN [kind |-> "dict", value |-> d]
    ELSE IF attr = "__class__" THEN [kind |-> "type", name |-> "PlyWrapper"]
    ELSE [kind |-> "method", name |-> attr]

\* the name lists callers pass to get_data; <<>> stands for both None and []
AttrLists == {<<>>, FieldNames,
              <<"xyz">>, <<"opacities", "xyz">>, <<"scaling", "rotation", "direct_current">>,
              <<"higher_order">>, <<"higher_order_shs">>, <<"ply_data">>, <<"get_data">>,
              <<"bogus">>, <<"xyz", "bogus">>, <<"xyz", "xyz">>,
              <<"__repr__">>, <<"__eq__", "__doc__">>, <<"__dict__", "__class__">>,
              <<"__module__", "__weakref__">>}

\* PlyWrapper.get_data(attrs)
get_data(d, attrs) ==
    IF attrs = <<>>
    THEN Outcome(d, "None",
            [kind |-> "dict",
             value |-> [xyz |-> d.xyz, opacities |-> d.opacities,
                        direct_current |-> d.direct_current,
                        higher_order |-> d.higher_order_shs,
                        scaling |-> d.scaling, rotation |-> d.rotation]])
    ELSE IF \E i \in 1..Len(attrs) : ~hasattr(d, attrs[i])
         THEN Outcome(d, "AttributeError", NoRet)
         ELSE Outcome(d, "None",
                 [kind |-> "dict", value |-> [a \in Range(attrs) |-> getattr(d, a)]])

\* PlyWrapper.get_dims()
get_dims(d) ==
    Outcome(d, "None",
        [kind |-> "dict",
         value |-> [xyz |-> d.xyz.shape, opacities |-> d.opacities.shape,
                    direct_current |-> d.direct_current.shape]])

\* attributes of a one-dimensional numpy.ndarray that yield a number or a shape;
\* numpy.ndarray has no attribute named count
NdarrayAttrs == {"shape", "size", "ndim"}

\* column.<name> on the ndarray that elements[0][...] yields
ndarray_getattr(col, name) ==
    IF name \notin NdarrayAttrs THEN [exc |-> "AttributeError", val |-> 0]
    ELSE [exc |-> "None",
          val |-> IF name = "size" THEN Len(col) ELSE IF name = "ndim" THEN 1 ELSE <<Len(col)>>]

\* elements[0][name].count
prop_count(el, name) ==
    LET g == element_get(el, name)
    IN IF g.exc # "None" THEN [exc |-> g.exc, val |-> 0] ELSE ndarray_getattr(g.col, "count")

\* self...[name].count == other...[name].count, the left operand evaluated first
same_count(el, other_el, name) ==
    LET a == prop_count(el, name)
        b == prop_count(other_el, name)
    IN IF a.exc # "None" THEN [exc |-> a.exc, val |-> FALSE]
       ELSE IF b.exc # "None" THEN [exc |-> b.exc, val |-> FALSE]
       ELSE [exc |-> "None", val |-> (a.val = b.val)]

\* a chain  c1 and c2 and ...  over the named properties, short-circuit
RECURSIVE all_same_count(_, _, _)
all_same_count(el, other_el, names) ==
    IF names = <<>> THEN [exc |-> "None", val |-> TRUE]
    ELSE LET c == same_count(el, other_el, Head(names))
         IN IF c.exc # "None" \/ ~c.val THEN c
            ELSE all_same_count(el, other_el, Tail(names))

\* the body of matching_dimensions once `other` is a PlyData
matching_dims(d, other_el) ==
    LET cx == all_same_count(d.ply_data, other_el, <<n_x, n_y, n_z>>)
        co == all_same_count(d.ply_data, other_el, <<n_opacity>>)
        cd == all_same_count(d.ply_data, other_el, <<n_f_dc_0, n_f_dc_1, n_f_dc_2>>)
    IN IF cx.exc # "None" THEN Outcome(d, cx.exc, NoRet)
       ELSE IF co.exc # "None" THEN Outcome(d, co.exc, NoRet)
       ELSE IF cd.exc # "None" THEN Outcome(d, cd.exc, NoRet)
       ELSE Outcome(d, "None",
               [kind |-> "dict",
                value |-> [xyz |-> cx.val, opacities |-> co.val, direct_current |-> cd.val]])

\* faulty variant: matching_dimensions that adopts `other` as its own source
\* before comparing: self.ply_data = other_ply_data; self.capture_data()
matching_dimensions_adopt(d, other) ==
    IF other.kind = "missing_path" THEN Outcome(d, "FileNotFoundError", NoRet)
    ELSE IF other.kind = "other" THEN Outcome(d, "TypeError", NoRet)
    ELSE LET c == capture_data(Put(d, "ply_data", other.ply))
         IN IF c.exc # "None" THEN c ELSE matching_dims(c.self, other.ply)

\* PlyWrapper.matching_dimensions(other)
matching_dimensions(d, other) ==
    IF other.kind = "missing_path" THEN Outcome(d, "FileNotFoundError", NoRet)
    ELSE IF other.kind = "other" THEN Outcome(d, "TypeError", NoRet)
    ELSE matching_dims(d, other.ply)

\* np.concatenate([a, b], axis=1) for arrays of at most 2 dimensions: the axis is
\* normalised against the dimensions of the first array (AxisError, a subclass of
\* ValueError and IndexError, when it has fewer than 2), and only then are the
\* dimensions and the lengths off the axis of the arrays compared (ValueError)
concatenate1(a, b) ==
    IF Len(a.shape) = 0 THEN [exc |-> "ValueError", arr |-> zeros(<<0>>)]
    ELSE IF Len(a.shape) < 2 THEN [exc |-> "AxisError", arr |-> zeros(<<0>>)]
    ELSE IF Len(b.shape) # Len(a.shape) THEN [exc |-> "ValueError", arr |-> zeros(<<0>>)]
    ELSE IF a.shape[1] # b.shape[1] THEN [exc |-> "ValueError", arr |-> zeros(<<0>>)]
    ELSE [exc |-> "None",
          arr |-> [shape |-> <<a.shape[1], a.shape[2] + b.shape[2]>>,
                   flat |-> [k \in 1..(a.shape[1] * (a.shape[2] + b.shape[2])) |->
                       LET w == a.shape[2] + b.shape[2]
                           r == (k - 1) \div w
                           j == (k - 1) % w
                       IN IF j < a.shape[2] THEN a.flat[r * a.shape[2] + j + 1]
                          ELSE b.flat[r * b.shape[2] + (j - a.shape[2]) + 1]]]]

\* PlyWrapper.get_sh_coeffs_standardized_format(): a DataFrame with one row per
\* row of sh_coeffs, indexed by the (x, y, z) tuples in order, duplicates kept
get_sh_coeffs_standardized_format(d) ==
    LET xyz_tuples == [r \in 1..len(d.xyz) |-> Row(d.xyz, r)]
        sh_coeffs == concatenate1(d.direct_current, d.higher_order_shs)
    IN IF sh_coeffs.exc # "None" THEN Outcome(d, sh_coeffs.exc, NoRet)
       ELSE Outcome(d, "None",
               [kind |-> "DataFrame",
                index |-> xyz_tuples,
                names |-> <<"x", "y", "z">>,
                values |-> [r \in 1..sh_coeffs.arr.shape[1] |-> Row(sh_coeffs.arr, r)]])

\* whether the caller obtains the object: only when __init__ returned normally
obtained(o) == o.exc = "None"

\* PlyWrapper.__init__(data)
PlyWrapper_init(data) ==
    IF data.kind = "missing_path" THEN Outcome(NoDict, "FileNotFoundError", NoRet)
    ELSE IF data.kind = "other" THEN Outcome(NoDict, "ValueError", NoRet)
    ELSE capture_data(Put(NoDict, "ply_data", data.ply))

\* ------------------------------------------------------------------ actions
\* the caller constructs a PlyWrapper; it obtains the object only if __init__ returns
Construct ==
    /\ op = "none"
    /\ \E data \in InitArgs :
         LET o == PlyWrapper_init(data)
         IN /\ self' = o.self
            /\ ref' = obtained(o)
            /\ exc' = o.exc
            /\ ret' = o.ret
            /\ op' = "__init__"
            /\ arg' = data
    /\ UNCHANGED expVars

\* the caller drops the object (or the failed attempt) and starts over
Discard ==
    /\ op # "none"
    /\ self' = NoDict
    /\ ref' = FALSE
    /\ exc' = "None"
    /\ ret' = NoRet
    /\ op' = "none"
    /\ arg' = <<>>
    /\ UNCHANGED expVars

\* the effect of a method call on the caller's view
Call(name, a, o) ==
    /\ self' = o.self
    /\ exc' = o.exc
    /\ ret' = o.ret
    /\ op' = name
    /\ arg' = a
    /\ UNCHANGED <<ref, expVars>>

GetData == ref /\ \E attrs \in AttrLists : Call("get_data", attrs, get_data(self, attrs))

GetDims == ref /\ Call("get_dims", <<>>, get_dims(self))

MatchingDimensions ==
    ref /\ \E other \in OtherArgs : Call("matching_dimensions", other, matching_dimensions(self, other))

GetShCoeffs ==
    ref /\ Call("get_sh_coeffs_standardized_format", <<>>, get_sh_coeffs_standardized_format(self))

\* capture_data called again on the held object
CaptureData == ref /\ Call("capture_data", <<>>, capture_data(self))

Init ==
    /\ self = NoDict
    /\ ref = FALSE
    /\ op = "none"
    /\ arg = <<>>
    /\ exc = "None"
    /\ ret = NoRet
    /\ exporter = NoDict
    /\ renders = <<>>
    /\ test_png = <<>>
    /\ manifests = NoDict
    /\ xop = "none"

Next == Construct \/ Discard \/ GetData \/ GetDims \/ MatchingDimensions \/ GetShCoeffs
        \/ CaptureData

Spec == Init /\ [][Next]_vars

\* ------------------------------------------------- NerfSyntheticDatasetExporter
MaxFrames == 2      \* frames per set in a caller-supplied dataset_sizes
MaxSeed == 1        \* states of the random generator: 0..MaxSeed
NumCells == 5       \* cells of the sphere a sampled position falls in
DefaultTrain == 100
DefaultVal == 100
DefaultTest == 200

SetNames == {"train", "val", "test"}

\* dataset_sizes is a dict: its items in insertion order, as <<key, size>> pairs
DefaultSizes == <<<<"train", DefaultTrain>>, <<"val", DefaultVal>>, <<"test", DefaultTest>>>>

KeyOrders == {q \in DistinctSeqs(SetNames, 3) : \A i, j \in 1..Len(q) : i # j => q[i] # q[j]}

\* what a caller may pass as dataset_sizes: <<>> stands for None and for {}
SizeArgs == UNION {{[i \in 1..Len(q) |-> <<q[i], f[i]>>] : f \in [1..Len(q) -> 0..MaxFrames]} :
                    q \in KeyOrders}

RECURSIVE SumValues(_)
SumValues(items) == IF items = <<>> THEN 0 ELSE Head(items)[2] + SumValues(Tail(items))

Keys(items) == {items[i][1] : i \in 1..Len(items)}

Size(items, key) == items[CHOOSE i \in 1..Len(items) : items[i][1] = key][2]

\* the k-th position the random generator yields from state `seed`: the (theta, phi)
\* draws of random.uniform are abstracted to one of a few cells on the sphere
sample(seed, k) == 1 + ((seed + k * (seed + 2)) % NumCells)

\* NerfSyntheticDatasetExporter.randomize_camera_locations
randomize_camera_locations(e, seed) ==
    LET total_number_of_frames == SumValues(e.dataset_sizes)
    IN Put(e, "camera_positions", [k \in 1..total_number_of_frames |-> sample(seed, k - 1)])

\* NerfSyntheticDatasetExporter.__init__; the new camera sits at the origin (0)
Exporter_init(dataset_sizes, seed) ==
    LET sizes == IF dataset_sizes = <<>> THEN DefaultSizes ELSE dataset_sizes
        e == [dataset_sizes |-> sizes, camera_location |-> 0]
    IN randomize_camera_locations(e, seed)

\* the index of camera_positions render_all prepares a frame from: `frame`, the
\* position within the current set (c_frame, the running count, is never read)
frame_index(c_frame, frame) == frame

\* the state of render_all's loops: the instance, the renders done, transforms_dicts,
\* the running count c_frame and the exception raised
RenderState(e, rs, ts, c, x) == [e |-> e, renders |-> rs, transforms |-> ts, c_frame |-> c, exc |-> x]

\* the render and the frame entry of one iteration of the inner loop:
\* prepare_frame(idx), render_image(image_path), frames.append({...})
shot_of(e, dataset_type, frame, idx) ==
    [filepath |-> [dir |-> dataset_type, r |-> frame],
     frame_number |-> idx, location |-> e.camera_positions[idx + 1]]

entry_of(e, dataset_type, frame, idx) ==
    [file_path |-> [dir |-> dataset_type, r |-> frame],
     transform_matrix |-> e.camera_positions[idx + 1]]

\* for frame in range(n_frames): the iterations run until camera_positions[idx]
\* raises IndexError or the range is exhausted
render_set(st, dataset_type, n_frames) ==
    LET idx(frame) == frame_index(st.c_frame + frame, frame)
        bad == {f \in 0..(n_frames - 1) : idx(f) >= Len(st.e.camera_positions)}
        done == IF bad = {} THEN n_frames ELSE CHOOSE f \in bad : \A g \in bad : f <= g
    IN IF st.exc # "None" \/ n_frames = 0 THEN st
       ELSE RenderState(
              IF done = 0 THEN st.e
              ELSE [st.e EXCEPT !.camera_location = st.e.camera_positions[idx(done - 1) + 1]],
              st.renders \o [k \in 1..done |-> shot_of(st.e, dataset_type, k - 1, idx(k - 1))],
              [st.transforms EXCEPT ![dataset_type] =
                  @ \o [k \in 1..done |-> entry_of(st.e, dataset_type, k - 1, idx(k - 1))]],
              st.c_frame + done,
              IF bad = {} THEN "None" ELSE "IndexError")

\* for dataset_type, n_frames in self.dataset_sizes.items()
RECURSIVE render_sets(_, _)
render_sets(st, items) ==
    IF items = <<>> THEN st
    ELSE render_sets(render_set(st, Head(items)[1], Head(items)[2]), Tail(items))

\* NerfSyntheticDatasetExporter.render_all
render_all(e) ==
    render_sets(RenderState(e, <<>>, [t \in SetNames |-> <<>>], 0, "None"), e.dataset_sizes)

\* camera_positions[frame_number] as Python indexes a list: negative indices count
\* from the end, anything outside -len..len-1 raises IndexError
index_ok(positions, frame_number) ==
    frame_number < Len(positions) /\ frame_number >= 0 - Len(positions)

getitem(positions, frame_number) ==
    IF frame_number >= 0 THEN positions[frame_number + 1]
    ELSE positions[Len(positions) + frame_number + 1]

\* NerfSyntheticDatasetExporter.prepare_frame(frame_number)
prepare_frame(e, frame_number) ==
    IF index_ok(e.camera_positions, frame_number)
    THEN [e |-> [e EXCEPT !.camera_location = getitem(e.camera_positions, frame_number)],
          exc |-> "None"]
    ELSE [e |-> e, exc |-> "IndexError"]

\* the frame numbers callers pass to prepare_frame
FrameArgs == (0 - 1)..MaxFrames

\* __init__ empties the export directory (set_and_create_export_path) and samples
ExporterInit ==
    /\ xop = "none"
    /\ \E dataset_sizes \in SizeArgs, seed \in 0..MaxSeed :
         exporter' = Exporter_init(dataset_sizes, seed)
    /\ renders' = <<>>
    /\ test_png' = <<>>
    /\ manifests' = NoDict
    /\ xop' = "__init__"
    /\ UNCHANGED plyVars

\* set_and_create_export_path: the directory at the export path is removed with all
\* it holds and created again, empty
SetAndCreateExportPath ==
    /\ xop # "none"
    /\ renders' = <<>>
    /\ test_png' = <<>>
    /\ manifests' = NoDict
    /\ xop' = "set_and_create_export_path"
    /\ UNCHANGED <<exporter, plyVars>>

\* randomize_camera_locations called on the held exporter: camera_positions is redrawn
RandomizeCameraLocations ==
    /\ xop # "none"
    /\ \E seed \in 0..MaxSeed : exporter' = randomize_camera_locations(exporter, seed)
    /\ xop' = "randomize_camera_locations"
    /\ UNCHANGED <<renders, test_png, manifests, plyVars>>

PrepareFrame ==
    /\ xop # "none"
    /\ \E frame_number \in FrameArgs :
         LET o == prepare_frame(exporter, frame_number)
         IN /\ exporter' = o.e
            /\ xop' = IF o.exc = "None" THEN "prepare_frame" ELSE "prepare_frame_raised"
    /\ UNCHANGED <<renders, test_png, manifests, plyVars>>

\* test_render: prepare_frame(0), then one render to <export_path>/test.png
TestRender ==
    /\ xop # "none"
    /\ LET o == prepare_frame(exporter, 0)
       IN /\ exporter' = o.e
          /\ test_png' = IF o.exc = "None"
                         THEN <<[frame_number |-> 0, location |-> o.e.camera_location]>>
                         ELSE test_png
          /\ xop' = IF o.exc = "None" THEN "test_render" ELSE "test_render_raised"
    /\ UNCHANGED <<renders, manifests, plyVars>>

\* render_all; the images are written frame by frame, the transforms_<set>.json
\* files only if no frame raised
RenderAll ==
    /\ xop # "none"
    /\ LET st == render_all(exporter)
       IN /\ exporter' = st.e
          /\ renders' = st.renders
          /\ manifests' = IF st.exc = "None" THEN st.transforms ELSE manifests
          /\ xop' = IF st.exc = "None" THEN "render_all" ELSE "render_all_raised"
    /\ UNCHANGED <<test_png, plyVars>>

\* the caller drops the exporter: the files it wrote stay in the export directory
\* until the next __init__ or set_and_create_export_path removes it
ExporterDiscard ==
    /\ xop # "none"
    /\ exporter' = NoDict
    /\ xop' = "none"
    /\ UNCHANGED <<renders, test_png, manifests, plyVars>>

NextExporter == ExporterInit \/ RenderAll \/ ExporterDiscard \/ SetAndCreateExportPath
                \/ RandomizeCameraLocations \/ PrepareFrame \/ TestRender

SpecExporter == Init /\ [][NextExporter]_vars

\* ===================================================================== claims
\* the prefix of the documented rotation properties rot_<i>
p_rot_ == <<"r", "o", "t", "_">>

ArrayAttrs == {"xyz", "opacities", "direct_current", "higher_order_shs", "scaling", "rotation"}

\* the element group the caller's record set was decoded from
Source == self.ply_data

\* name is prefix_ followed by a run of decimal digits, e.g. rot_<i>
IsForm(name, prefix_) ==
    startswith(name, prefix_) /\ AllDigits(SubSeq(name, Len(prefix_) + 1, Len(name)))

FormNames(el, prefix_) == {n \in Range(el.properties) : IsForm(n, prefix_)}

FormSuffix(name, prefix_) == DecVal(SubSeq(name, Len(prefix_) + 1, Len(name)))

\* how many names of the group have a smaller integer suffix
Rank(S, prefix_, name) ==
    Cardinality({m \in S : FormSuffix(m, prefix_) < FormSuffix(name, prefix_)})

\* column k of the array holds the values of the property with the k-th smallest suffix
ColumnsBySuffix(a, el, prefix_) ==
    LET S == FormNames(el, prefix_)
    IN /\ Len(a.shape) = 2
       /\ a.shape[2] = Cardinality(S)
       /\ \A n \in S : Column(a, Rank(S, prefix_, n)) = el.data[n]

\* every property that one of the three groups selects has the documented form
WellFormed(el) ==
    \A n \in Range(el.properties) :
        /\ startswith(n, p_f_rest) => IsForm(n, p_f_rest)
        /\ startswith(n, p_scale) => IsForm(n, p_scale)
        /\ startswith(n, p_rot) => IsForm(n, p_rot_)

HasBase(el) == Range(BaseNames) \subseteq Range(el.properties)

Decodable(a) == a.kind \in {"PlyData", "path"}

Position(q, e) == CHOOSE i \in 1..Len(q) : q[i] = e

\* C1: after decode each of the six arrays has leading dimension N, the source's
\* row count, and base_color (direct_current) has shape (N, 3), for N = 1 too.
C1_LeadingDimension ==
    ref => /\ \A a \in ArrayAttrs : self[a].shape[1] = Source.count
           /\ self.direct_current.shape = <<Source.count, 3>>

\* C2: whatever the declaration order, column k of higher_order_shs, scaling and
\* rotation holds the values of the f_rest_<i>, scale_<i>, rot_<i> property with the
\* k-th smallest integer suffix (sources whose group properties have that form).
C2_ColumnsBySuffix ==
    (ref /\ WellFormed(Source)) =>
        /\ ColumnsBySuffix(self.higher_order_shs, Source, p_f_rest)
        /\ ColumnsBySuffix(self.scaling, Source, p_scale)
        /\ ColumnsBySuffix(self.rotation, Source, p_rot_)

\* f_rest_10 is declared before f_rest_9, and decode put f_rest_9 in column 0
C2_Witness ==
    /\ ref
    /\ WellFormed(Source)
    /\ {n_f_rest_9, n_f_rest_10} \subseteq Range(Source.properties)
    /\ Position(Source.properties, n_f_rest_10) < Position(Source.properties, n_f_rest_9)
    /\ Column(self.higher_order_shs, 0) = Source.data[n_f_rest_9]
    /\ Column(self.higher_order_shs, 1) = Source.data[n_f_rest_10]

\* C3: get_data with the six field names succeeds and returns the same mapping
\* as get_data with no names.
C3_SelectAllEqualsDefault ==
    (ref /\ op = "get_data" /\ arg = FieldNames) =>
        /\ exc = "None"
        /\ get_data(self, <<>>).exc = "None"
        /\ ret = get_data(self, <<>>).ret

\* C4: for a non-empty list of names get_data fails iff some name is not one of the
\* six field names; otherwise it returns a mapping keyed by exactly the names asked
\* for; nothing is returned when it fails.
C4_UnknownFieldIff ==
    (ref /\ op = "get_data" /\ arg # <<>>) =>
        /\ (exc # "None") <=> (\E i \in 1..Len(arg) : arg[i] \notin Range(FieldNames))
        /\ exc # "None" => (exc = "AttributeError" /\ ret = NoRet)
        /\ exc = "None" => (ret.kind = "dict" /\ DOMAIN ret.value = Range(arg))

\* C5: a source lacking a required base property makes decode raise and the caller
\* obtains no object; an object the caller holds always has all six arrays.
C5_NoPartialRecordSet ==
    /\ (op = "__init__" /\ Decodable(arg) /\ ~HasBase(arg.ply)) => (exc = "ValueError" /\ ~ref)
    /\ ref => ArrayAttrs \subseteq DOMAIN self

\* decode raised at f_dc_1 with xyz and opacities already stored on the instance,
\* which the caller never obtains
C5_Witness ==
    /\ op = "__init__"
    /\ Decodable(arg)
    /\ n_f_dc_1 \notin Range(arg.ply.properties)
    /\ exc = "ValueError"
    /\ ~ref
    /\ {"xyz", "opacities", "direct_current"} \subseteq DOMAIN self
    /\ "rotation" \notin DOMAIN self

\* C6: matching_dimensions on a decodable second source returns a mapping with the
\* keys xyz, opacities, direct_current, each true iff the point counts are equal.
C6_CompareCounts ==
    (ref /\ op = "matching_dimensions" /\ Decodable(arg) /\ HasBase(arg.ply)) =>
        /\ exc = "None"
        /\ ret.kind = "dict"
        /\ DOMAIN ret.value = {"xyz", "opacities", "direct_current"}
        /\ \A k \in DOMAIN ret.value : ret.value[k] = (Source.count = arg.ply.count)

\* C7: the table has N rows, row i keyed by the position of point i (duplicates
\* kept), its columns the 3 base colours followed by the extra colours; N = 1 too.
C7_TableRows ==
    (ref /\ op = "get_sh_coeffs_standardized_format") =>
        /\ exc = "None"
        /\ Len(ret.index) = Source.count
        /\ Len(ret.values) = Source.count
        /\ \A i \in 1..Source.count :
             /\ ret.index[i] = <<Source.data[n_x][i], Source.data[n_y][i], Source.data[n_z][i]>>
             /\ ret.values[i] =
                  <<Source.data[n_f_dc_0][i], Source.data[n_f_dc_1][i], Source.data[n_f_dc_2][i]>>
                  \o Row(self.higher_order_shs, i)

\* C8: rotation, scaling and higher_order_shs have one column per property of the
\* form rot_<i>, scale_<i>, f_rest_<i> and no other; a property of another name
\* does not make decode fail.
C8_OnlyGroupForm ==
    /\ (op = "__init__" /\ Decodable(arg) /\ HasBase(arg.ply)) => exc = "None"
    /\ ref => /\ self.rotation.shape[2] = Cardinality(FormNames(Source, p_rot_))
              /\ self.scaling.shape[2] = Cardinality(FormNames(Source, p_scale))
              /\ self.higher_order_shs.shape[2] = Cardinality(FormNames(Source, p_f_rest))

QueryOps == {"get_data", "get_dims", "matching_dimensions", "get_sh_coeffs_standardized_format"}

\* C9: a call of get_data, matching_dimensions or get_sh_coeffs_standardized_format,
\* returning or raising, leaves the source and the six arrays of the object as they were.
C9_QueriesKeepArrays ==
    [][(ref /\ op' \in QueryOps) =>
          (ref' /\ \A a \in ArrayAttrs \cup {"ply_data"} : self'[a] = self[a])]_vars

\* matching_dimensions was called with a source of another point count and raised
C9_Witness ==
    /\ ref
    /\ op = "matching_dimensions"
    /\ Decodable(arg)
    /\ HasBase(arg.ply)
    /\ arg.ply.count # Source.count
    /\ exc # "None"
    /\ ArrayAttrs \subseteq DOMAIN self

\* C10: as many camera positions as frames; no index of camera_positions is used
\* for two frames of render_all and every index is in range; each set's manifest
\* lists ./<set>/r_0 .. r_{n-1} in order.
C10_OnePositionPerFrame ==
    xop = "render_all" =>
        /\ Len(exporter.camera_positions) = SumValues(exporter.dataset_sizes)
        /\ \A i, j \in 1..Len(renders) :
             i # j => renders[i].frame_number # renders[j].frame_number
        /\ \A i \in 1..Len(renders) :
             renders[i].frame_number \in 0..(Len(exporter.camera_positions) - 1)
        /\ \A t \in Keys(exporter.dataset_sizes) :
             /\ Len(manifests[t]) = Size(exporter.dataset_sizes, t)
             /\ \A k \in 1..Len(manifests[t]) :
                  manifests[t][k].file_path = [dir |-> t, r |-> k - 1]

====
